---- MODULE Spec2Model ----
(***************************************************************************)
(* Model of the wallet client's operations (api/transaction.go and the POE *)
(* operations): every exported method of WalletClient is a sequence of     *)
(* steps  validate -> (sign) -> compose -> send -> decode  over a call     *)
(* frame.  One call frame is the record call[i]; the client itself only    *)
(* holds the transport client w.c and the optional custodial signer w.s.   *)
(***************************************************************************)
EXTENDS Integers, Sequences, FiniteSets, TLC

VARIABLES
    ws,      \* WalletClient.s : is a custodial signer configured
    calls,   \* the calls made on the client
    call     \* call[i] : the frame of call i (arguments, locals, position)

vars == <<ws, calls, call>>

----------------------------------------------------------------------------
(* Bounds *)

\* remote error codes are 0 .. MaxErrCode
MaxErrCode == 2

----------------------------------------------------------------------------
(* Values *)

SuccCode == 0

ErrCodes == 0..MaxErrCode

Nil == [kind |-> "nil"]

NoErr == [kind |-> "none", code |-> 0, msg |-> ""]

IsNil(v) == v.kind = "nil"

\* JSON text is a sequence of tokens
Tok(t, v) == [t |-> t, v |-> v]

Names == {"alice", "bob"}

\* *structs.IssueBody, *structs.TransferBody, *wallet.POEBody ... : nil or
\* a struct.  meta = "unsupported" is a field value encoding/json rejects.
Bodies ==
    {[kind |-> "body", owner |-> o, asset |-> a, meta |-> m] :
        o \in Names, a \in {"asset1"}, m \in {"plain", "unsupported"}}

\* caller-supplied *structs.SignatureBody
CallerSigns ==
    {Nil, [kind |-> "sign", creator |-> "alice", nonce |-> "nonce",
           value |-> "callerSig"]}

\* *structs.SignatureParam : nil, or creator / nonce / private key
SignParams ==
    {Nil} \cup {[kind |-> "params", creator |-> "alice", nonce |-> "nonce",
                 key |-> k] : k \in {"goodKey", "malformedKey"}}

Headers == {"unset", "sync"}

Ids == {"", "id1"}

Files == {"", "./poe-file"}

\* what a non-empty poeFile path names on the local disk: nothing, something
\* that opens but cannot be read (a directory), or a readable file
FileStates == {"missing", "unreadable", "file"}

Messages == {"", "insufficient balance"}

ResultIds == {"tx1", "tx2"}

\* the nested JSON strings a gateway may put in the payload field
InnerGood(v) == <<Tok("punct", "{"), Tok("key", "id"), Tok("str", v), Tok("punct", "}")>>
InnerNull == <<Tok("lit", "null")>>
InnerTruncated == <<Tok("punct", "{"), Tok("key", "id")>>
InnerMistyped == <<Tok("punct", "{"), Tok("key", "id"), Tok("num", "7"), Tok("punct", "}")>>

InnerStrings ==
    {InnerGood(v) : v \in ResultIds} \cup {InnerNull, InnerTruncated, InnerMistyped}

\* the payload field of the envelope as decoded into interface{}
Payloads ==
    {Nil, [kind |-> "float64", val |-> <<Tok("num", "7")>>],
          [kind |-> "map", val |-> InnerGood("tx1")]}
    \cup {[kind |-> "string", val |-> s] : s \in InnerStrings}

\* raw response bodies: not JSON at all, or an envelope object whose
\* err_code member may be absent (has_code = FALSE; err_code is then unused)
RawBodies ==
    {[kind |-> "malformed"]}
    \cup {[kind |-> "json", has_code |-> TRUE, err_code |-> c,
           err_message |-> m, payload |-> p] :
            c \in ErrCodes, m \in Messages, p \in Payloads}
    \cup {[kind |-> "json", has_code |-> FALSE, err_code |-> SuccCode,
           err_message |-> m, payload |-> p] :
            m \in Messages, p \in Payloads}

----------------------------------------------------------------------------
(* Operations and their endpoints *)

BaseOps == {"IssueCToken", "IssueAsset", "TransferCToken", "TransferAsset"}

SignOps == {"IssueCTokenSign", "IssueAssetSign", "TransferCTokenSign", "TransferAssetSign"}

POEOps == {"CreatePOE", "UpdatePOE"}

QueryOps == {"QueryTransactionLogs", "QueryPOE"}

Ops == BaseOps \cup SignOps \cup POEOps \cup QueryOps \cup {"UploadPOEFile"}

\* the operations in which the SDK builds the signature
SigningOps == SignOps \cup POEOps

\* xxxSign ends with  return w.xxx(header, body, sign)
BaseOf(op) ==
    CASE op = "IssueCTokenSign" -> "IssueCToken"
      [] op = "IssueAssetSign" -> "IssueAsset"
      [] op = "TransferCTokenSign" -> "TransferCToken"
      [] op = "TransferAssetSign" -> "TransferAsset"
      [] OTHER -> op

Method(fn) ==
    CASE fn \in BaseOps \cup {"CreatePOE", "UploadPOEFile"} -> "POST"
      [] fn = "UpdatePOE" -> "PUT"
      [] OTHER -> "GET"

Path(fn) ==
    CASE fn = "IssueCToken" -> "/v1/transaction/tokens/issue"
      [] fn = "IssueAsset" -> "/v1/transaction/assets/issue"
      [] fn = "TransferCToken" -> "/v1/transaction/tokens/transfer"
      [] fn = "TransferAsset" -> "/v1/transaction/assets/transfer"
      [] fn = "QueryTransactionLogs" -> "/v1/transaction/logs"
      [] fn = "CreatePOE" -> "/v1/poe/create"
      [] fn = "UpdatePOE" -> "/v1/poe/update"
      [] fn = "QueryPOE" -> "/v1/poe"
      [] OTHER -> "/v1/poe/upload"

\* the type json.Unmarshal decodes the nested payload into
ResultType(fn) ==
    CASE fn = "QueryTransactionLogs" -> "TransactionLogs"
      [] fn = "QueryPOE" -> "POEPayload"
      [] fn = "UploadPOEFile" -> "UploadResponse"
      [] OTHER -> "WalletResponse"

----------------------------------------------------------------------------
(* Pure functions *)

Error(kind, code, msg) == [kind |-> kind, code |-> code, msg |-> msg]

\* fmt.Errorf("request payload invalid") and the other argument checks
PreconditionError(msg) == Error("precondition", 0, msg)

\* variant: the remote message is dropped
CodedErrorNoMessage(code, msg) == Error("remote", code, "")

\* rest.CodedError(respBody.ErrCode, respBody.ErrMessage)
CodedError(code, msg) == Error("remote", code, msg)

\* reflect.TypeOf(respBody.Payload), as %v prints it
TypeOf(p) ==
    CASE p.kind = "nil" -> "<nil>"
      [] p.kind = "map" -> "map[string]interface {}"
      [] OTHER -> p.kind

\* fmt.Errorf("response payload type invalid: %v", reflect.TypeOf(...))
PayloadTypeError(p) == Error("payloadType", 0, TypeOf(p))

\* json.Marshal(body): the struct's members in declaration order
JsonMarshal(b) ==
    IF b.meta = "unsupported"
    THEN [err |-> Error("marshal", 0, "json: unsupported value"), bytes |-> <<>>]
    ELSE [err |-> NoErr,
          bytes |-> <<Tok("punct", "{"), Tok("key", "owner"), Tok("str", b.owner),
                      Tok("key", "asset"), Tok("str", b.asset), Tok("punct", "}")>>]

\* &structs.WalletRequest{Payload: string(reqPayload), Signature: sign}
WalletRequest(reqPayload, sign) ==
    [kind |-> "envelope", payload |-> reqPayload, signature |-> sign]

\* variant: the payload member is declared a string, so that an absent
\* payload decodes to the empty string
DecodeEnvelopeStringPayload(raw) ==
    [kind |-> "Response",
     ErrCode |-> IF raw.has_code THEN raw.err_code ELSE 0,
     ErrMessage |-> raw.err_message,
     Payload |-> IF IsNil(raw.payload) THEN [kind |-> "string", val |-> <<>>]
                 ELSE raw.payload]

\* restapi.DecodeBody(resp, &respBody) on a well-formed envelope: an absent
\* err_code leaves the zero value
DecodeEnvelope(raw) ==
    [kind |-> "Response",
     ErrCode |-> IF raw.has_code THEN raw.err_code ELSE 0,
     ErrMessage |-> raw.err_message,
     Payload |-> raw.payload]

\* json.Unmarshal([]byte(respPayload), &result), result being nil before
JsonUnmarshal(s, type) ==
    IF s = InnerNull
    THEN [err |-> NoErr, result |-> Nil]
    ELSE IF Len(s) = 4 /\ s[1] = Tok("punct", "{") /\ s[2].t = "key"
            /\ s[3].t \in {"str", "num"} /\ s[4] = Tok("punct", "}")
    THEN IF s[3].t = "str"
         THEN [err |-> NoErr,
               result |-> [kind |-> "result", type |-> type, id |-> s[3].v]]
         ELSE [err |-> Error("parse", 0, "json: cannot unmarshal number"),
               result |-> [kind |-> "result", type |-> type, id |-> ""]]
    ELSE [err |-> Error("parse", 0, "unexpected end of JSON input"),
          result |-> Nil]

----------------------------------------------------------------------------
(* Call frames *)

\* the frame of a call that has not been made yet
Idle ==
    [pc |-> "idle", op |-> "", fn |-> "",
     header |-> "unset", body |-> Nil, sign |-> Nil, signParams |-> Nil,
     id |-> "", txType |-> "", poeFile |-> "", readOnly |-> FALSE,
     fs |-> "file",
     reqPayload |-> <<>>, r |-> Nil, resp |-> Nil, respBody |-> Nil,
     respPayload |-> <<>>, result |-> Nil, err |-> NoErr,
     parts |-> <<>>, writerClosed |-> FALSE,
     srcFile |-> "unopened", respBodyState |-> "none", defers |-> <<>>,
     \* what the call did to the outside, in order
     signInput |-> <<>>, signBuilt |-> 0, lookups |-> 0, opens |-> 0,
     sent |-> <<>>, steps |-> <<>>]

\* the argument tuples each operation is called with; arguments an
\* operation does not have keep their zero value
CallArgs(op) ==
    CASE op \in BaseOps ->
            [header : Headers, body : {Nil} \cup Bodies, sign : CallerSigns,
             signParams : {Nil}, id : {""}, txType : {""}, poeFile : {""},
             readOnly : {FALSE}, fs : {"file"}]
      [] op \in SigningOps ->
            [header : Headers, body : {Nil} \cup Bodies, sign : {Nil},
             signParams : SignParams, id : {""}, txType : {""}, poeFile : {""},
             readOnly : {FALSE}, fs : {"file"}]
      [] op = "QueryTransactionLogs" ->
            [header : Headers, body : {Nil}, sign : {Nil}, signParams : {Nil},
             id : Ids, txType : {"in", "out"}, poeFile : {""}, readOnly : {FALSE},
             fs : {"file"}]
      [] op = "QueryPOE" ->
            [header : Headers, body : {Nil}, sign : {Nil}, signParams : {Nil},
             id : Ids, txType : {""}, poeFile : {""}, readOnly : {FALSE},
             fs : {"file"}]
      [] OTHER ->
            [header : Headers, body : {Nil}, sign : {Nil}, signParams : {Nil},
             id : Ids, txType : {""}, poeFile : Files, readOnly : BOOLEAN,
             fs : FileStates]

\* Runs with several calls in flight draw the calls and the responses from
\* smaller sets: one operation of each shape, one body, either header, and
\* one response for each way the decoding can end.
Concurrent == Cardinality(calls) > 1

OpsCalled ==
    IF Concurrent
    THEN {"TransferCTokenSign", "CreatePOE", "QueryPOE", "UploadPOEFile"}
    ELSE Ops

ArgsCalled(op) ==
    IF Concurrent
    THEN {a \in CallArgs(op) :
            /\ (op \in SigningOps => a.body.kind = "body" /\ a.body.owner = "alice"
                                      /\ a.body.meta = "plain"
                                      /\ (IsNil(a.signParams) \/ a.signParams.key = "goodKey"))
            /\ a.id = (IF op \in SigningOps THEN "" ELSE "id1")
            /\ (op = "UploadPOEFile" => a.poeFile # "" /\ ~a.readOnly
                                        /\ a.fs \in {"missing", "file"})}
    ELSE CallArgs(op)

Responses ==
    IF Concurrent
    THEN {r \in RawBodies :
            \/ r.kind = "malformed"
            \/ /\ r.kind = "json" /\ r.has_code /\ r.err_code = 1
               /\ r.err_message = "insufficient balance" /\ IsNil(r.payload)
            \/ /\ r.kind = "json" /\ r.has_code /\ r.err_code = SuccCode
               /\ r.err_message = ""
               /\ \/ IsNil(r.payload)
                  \/ r.payload.kind = "string" /\ r.payload.val # InnerMistyped
                                               /\ r.payload.val # InnerNull}
    ELSE RawBodies

\* the first statement of each function
Entry(fn) == IF fn = "QueryPOE" THEN "newRequest" ELSE "validate"

\* err = ...; return
Fail(c, e) == [c EXCEPT !.err = e, !.pc = "return"]

Set(i, c) == /\ call' = [call EXCEPT ![i] = c]
             /\ UNCHANGED <<ws, calls>>

Init == /\ ws \in BOOLEAN
        /\ calls = {1}
        /\ call = [i \in calls |-> Idle]

----------------------------------------------------------------------------
(* A caller invokes an operation *)

Invoke(i) ==
    /\ call[i].pc = "idle"
    /\ \E op \in OpsCalled : \E a \in ArgsCalled(op) :
         Set(i, [call[i] EXCEPT !.pc = Entry(op), !.op = op, !.fn = op,
                   !.header = a.header, !.body = a.body, !.sign = a.sign,
                   !.signParams = a.signParams, !.id = a.id,
                   !.txType = a.txType, !.poeFile = a.poeFile,
                   !.readOnly = a.readOnly, !.fs = a.fs])

----------------------------------------------------------------------------
(* Argument checks *)

\* variant: UploadPOEFile does not check poeFile
ValidateNoFileCheck(i) ==
    LET c == call[i] IN
    /\ c.pc = "validate"
    /\ Set(i,
         CASE c.fn \in BaseOps \cup SigningOps ->
                IF IsNil(c.body)
                THEN Fail(c, PreconditionError("request payload invalid"))
                ELSE [c EXCEPT !.pc = CASE c.fn \in BaseOps -> "newRequest"
                                        [] c.fn \in SignOps -> "marshal"
                                        [] OTHER -> "queryPrivateKey"]
           [] c.fn = "QueryTransactionLogs" ->
                IF c.id = ""
                THEN Fail(c, PreconditionError("request id invalid"))
                ELSE [c EXCEPT !.pc = "newRequest"]
           [] OTHER ->
                IF c.id = ""
                THEN Fail(c, PreconditionError("poe id must be set when uploading poe file"))
                ELSE [c EXCEPT !.pc = "writePoeID"])

\* if body == nil / if id == "" / if poeID == "" ... if poeFile == ""
Validate(i) ==
    LET c == call[i] IN
    /\ c.pc = "validate"
    /\ Set(i,
         CASE c.fn \in BaseOps \cup SigningOps ->
                IF IsNil(c.body)
                THEN Fail(c, PreconditionError("request payload invalid"))
                ELSE [c EXCEPT !.pc = CASE c.fn \in BaseOps -> "newRequest"
                                        [] c.fn \in SignOps -> "marshal"
                                        [] OTHER -> "queryPrivateKey"]
           [] c.fn = "QueryTransactionLogs" ->
                IF c.id = ""
                THEN Fail(c, PreconditionError("request id invalid"))
                ELSE [c EXCEPT !.pc = "newRequest"]
           [] OTHER ->
                IF c.id = ""
                THEN Fail(c, PreconditionError("poe id must be set when uploading poe file"))
                ELSE IF c.poeFile = ""
                THEN Fail(c, PreconditionError("poe file must be set when uploading poe file"))
                ELSE [c EXCEPT !.pc = "writePoeID"])

----------------------------------------------------------------------------
(* Signing *)

\* w.queryPrivateKey(header, signParams): the key-custody lookup either
\* fails or returns the parameters with the private key filled in
queryPrivateKey(signParams) ==
    {[err |-> Error("custody", 0, m), params |-> Nil] :
        m \in {"NotFound", "AccessDenied"}}
    \cup {[err |-> NoErr,
           params |-> [kind |-> "params",
                       creator |-> IF IsNil(signParams) THEN "enterprise"
                                   ELSE signParams.creator,
                       nonce |-> IF IsNil(signParams) THEN "nonce"
                                 ELSE signParams.nonce,
                       key |-> k]] : k \in {"goodKey", "malformedKey"}}

\* variant: the test of w.s is inverted
QueryPrivateKeyInverted(i) ==
    LET c == call[i] IN
    /\ c.pc = "queryPrivateKey"
    /\ IF ~ws
       THEN \E q \in queryPrivateKey(c.signParams) :
              Set(i, IF q.err # NoErr
                     THEN Fail([c EXCEPT !.lookups = @ + 1, !.signParams = q.params], q.err)
                     ELSE [c EXCEPT !.lookups = @ + 1, !.signParams = q.params,
                                    !.pc = "marshal"])
       ELSE Set(i, [c EXCEPT !.pc = "marshal"])

\* if w.s != nil { signParams, err = w.queryPrivateKey(header, signParams) }
QueryPrivateKey(i) ==
    LET c == call[i] IN
    /\ c.pc = "queryPrivateKey"
    /\ IF ws
       THEN \E q \in queryPrivateKey(c.signParams) :
              Set(i, IF q.err # NoErr
                     THEN Fail([c EXCEPT !.lookups = @ + 1, !.signParams = q.params], q.err)
                     ELSE [c EXCEPT !.lookups = @ + 1, !.signParams = q.params,
                                    !.pc = "marshal"])
       ELSE Set(i, [c EXCEPT !.pc = "marshal"])

\* reqPayload, err := json.Marshal(body)
MarshalBody(i) ==
    LET c == call[i]
        m == JsonMarshal(c.body) IN
    /\ c.pc = "marshal"
    /\ Set(i, IF m.err # NoErr
              THEN Fail(c, m.err)
              ELSE [c EXCEPT !.reqPayload = m.bytes,
                             !.pc = IF c.fn \in BaseOps THEN "setBody"
                                    ELSE "buildSignatureBody"])

\* buildSignatureBody(signParams, payload): fails when the parameters are
\* nil, when the private key is malformed or when the signing primitive
\* fails; otherwise the signature of payload under the key
buildSignatureBody(signParams, payload) ==
    IF IsNil(signParams)
    THEN {[err |-> Error("signing", 0, "nil params"), sign |-> Nil]}
    ELSE IF signParams.key = "malformedKey"
    THEN {[err |-> Error("signing", 0, "malformed key"), sign |-> Nil]}
    ELSE {[err |-> Error("signing", 0, "sign failed"), sign |-> Nil],
          [err |-> NoErr,
           sign |-> [kind |-> "sign", creator |-> signParams.creator,
                     nonce |-> signParams.nonce, value |-> "sdkSig"]]}

\* variant: the signature is computed over an indented serialization
SignInputIndented(c) == <<Tok("space", "  ")>> \o c.reqPayload

\* the bytes handed to the signature builder
SignInput(c) == c.reqPayload

\* variant: the builder's error is not looked at
BuildSignatureBodyUnchecked(i) ==
    LET c == call[i] IN
    /\ c.pc = "buildSignatureBody"
    /\ \E b \in buildSignatureBody(c.signParams, SignInput(c)) :
         Set(i, [c EXCEPT !.signInput = SignInput(c), !.signBuilt = @ + 1,
                          !.sign = b.sign,
                          !.pc = IF c.fn \in SignOps THEN "delegate"
                                 ELSE "newRequest"])

\* sign, err := buildSignatureBody(signParams, reqPayload)
BuildSignatureBody(i) ==
    LET c == call[i] IN
    /\ c.pc = "buildSignatureBody"
    /\ \E b \in buildSignatureBody(c.signParams, SignInput(c)) :
         LET d == [c EXCEPT !.signInput = SignInput(c), !.signBuilt = @ + 1,
                            !.sign = b.sign] IN
         Set(i, IF b.err # NoErr
                THEN Fail(d, b.err)
                ELSE [d EXCEPT !.pc = IF c.fn \in SignOps THEN "delegate"
                                      ELSE "newRequest"])

\* return w.IssueCToken(header, body, sign)   (and the three like it):
\* the callee starts with its own locals
Delegate(i) ==
    LET c == call[i] IN
    /\ c.pc = "delegate"
    /\ Set(i, [c EXCEPT !.fn = BaseOf(c.op), !.reqPayload = <<>>,
                        !.pc = Entry(BaseOf(c.op))])

----------------------------------------------------------------------------
(* Multipart upload body *)

\* strconv.FormatBool(readOnly)
FormatBool(b) == IF b THEN "true" ELSE "false"

Part(name, filename, value) == [name |-> name, filename |-> filename, value |-> value]

\* err = writer.WriteField(wallet.OffchainPOEID, poeID)
WriteFieldPoeID(i) ==
    LET c == call[i] IN
    /\ c.pc = "writePoeID"
    /\ \E ok \in BOOLEAN :
         Set(i, IF ok
                THEN [c EXCEPT !.parts = Append(@, Part("OffchainPOEID", "", c.id)),
                               !.pc = "writeReadOnly"]
                ELSE Fail(c, Error("write", 0, "OffchainPOEID")))

\* variant: the error of the second WriteField is not looked at
WriteFieldReadOnlyUnchecked(i) ==
    LET c == call[i] IN
    /\ c.pc = "writeReadOnly"
    /\ \E ok \in BOOLEAN :
         Set(i, IF ok
                THEN [c EXCEPT !.parts = Append(@, Part("OffchainReadOnly", "",
                                                        FormatBool(c.readOnly))),
                               !.pc = "createFormFile"]
                ELSE [c EXCEPT !.pc = "createFormFile"])

\* err = writer.WriteField(wallet.OffchainReadOnly, strconv.FormatBool(readOnly))
WriteFieldReadOnly(i) ==
    LET c == call[i] IN
    /\ c.pc = "writeReadOnly"
    /\ \E ok \in BOOLEAN :
         Set(i, IF ok
                THEN [c EXCEPT !.parts = Append(@, Part("OffchainReadOnly", "",
                                                        FormatBool(c.readOnly))),
                               !.pc = "createFormFile"]
                ELSE Fail(c, Error("write", 0, "OffchainReadOnly")))

\* formFile, err := writer.CreateFormFile(wallet.OffchainPOEFile, poeFile)
CreateFormFile(i) ==
    LET c == call[i] IN
    /\ c.pc = "createFormFile"
    /\ \E ok \in BOOLEAN :
         Set(i, IF ok
                THEN [c EXCEPT !.parts = Append(@, Part("OffchainPOEFile", c.poeFile, "")),
                               !.pc = "open"]
                ELSE Fail(c, Error("write", 0, "OffchainPOEFile")))

\* variant: the open error is logged and the call goes on
OpenFileErrorIgnored(i) ==
    LET c == call[i] IN
    /\ c.pc = "open"
    /\ Set(i, IF c.fs # "missing"
              THEN [c EXCEPT !.opens = @ + 1, !.srcFile = "open",
                             !.defers = Append(@, "srcFile"), !.pc = "copy"]
              ELSE [c EXCEPT !.opens = @ + 1, !.pc = "closeWriter"])

\* srcFile, err := os.Open(poeFile); defer srcFile.Close()
OpenFile(i) ==
    LET c == call[i] IN
    /\ c.pc = "open"
    /\ Set(i, IF c.fs # "missing"
              THEN [c EXCEPT !.opens = @ + 1, !.srcFile = "open",
                             !.defers = Append(@, "srcFile"), !.pc = "copy"]
              ELSE Fail([c EXCEPT !.opens = @ + 1],
                        Error("open", 0, "no such file or directory")))

\* _, err = io.Copy(formFile, srcFile)
CopyFile(i) ==
    LET c == call[i] IN
    /\ c.pc = "copy"
    /\ Set(i, IF c.fs = "file"
              THEN [c EXCEPT !.parts[Len(c.parts)].value = "file contents",
                             !.pc = "closeWriter"]
              ELSE Fail(c, Error("copy", 0, "read error")))

\* variant: writer.Close() is left out
CloseWriterOmitted(i) ==
    LET c == call[i] IN
    /\ c.pc = "closeWriter"
    /\ Set(i, [c EXCEPT !.pc = "newRequest"])

\* contentType := writer.FormDataContentType(); writer.Close()
CloseWriter(i) ==
    LET c == call[i] IN
    /\ c.pc = "closeWriter"
    /\ Set(i, [c EXCEPT !.writerClosed = TRUE, !.pc = "newRequest"])

\* buf.Bytes(): what has been written, with the closing boundary once the
\* writer is closed
BufBytes(c) == [kind |-> "multipart", parts |-> c.parts, terminated |-> c.writerClosed]

----------------------------------------------------------------------------
(* Request composing and sending *)

\* variant: the request object is kept on the client and shared, so that
\* SetHeaders also changes the request another call is composing
NewRequestShared(i) ==
    LET c == call[i] IN
    /\ c.pc = "newRequest"
    /\ call' = [j \in calls |->
          IF j = i
          THEN [c EXCEPT
                  !.r = [kind |-> "request", method |-> Method(c.fn), path |-> Path(c.fn),
                         header |-> c.header,
                         params |-> IF c.fn \in QueryOps THEN <<c.id, c.txType>> ELSE <<>>,
                         contentType |-> IF c.fn = "UploadPOEFile"
                                         THEN "multipart/form-data" ELSE "",
                         body |-> IF c.fn = "UploadPOEFile" THEN BufBytes(c) ELSE Nil],
                  !.pc = CASE c.fn \in BaseOps -> "marshal"
                           [] c.fn \in POEOps -> "setBody"
                           [] OTHER -> "doRequest"]
          ELSE IF call[j].pc \in {"marshal", "setBody", "doRequest"} /\ ~IsNil(call[j].r)
          THEN [call[j] EXCEPT !.r.header = c.header]
          ELSE call[j]]
    /\ UNCHANGED <<ws, calls>>

\* r := w.c.NewRequest(method, path); r.SetHeaders(header); and, where the
\* function has them, r.SetParam(...) / r.SetHeader("Content-Type", ...) /
\* r.SetBody(buf.Bytes())
NewRequest(i) ==
    LET c == call[i] IN
    /\ c.pc = "newRequest"
    /\ Set(i, [c EXCEPT
          !.r = [kind |-> "request", method |-> Method(c.fn), path |-> Path(c.fn),
                 header |-> c.header,
                 params |-> IF c.fn \in QueryOps THEN <<c.id, c.txType>> ELSE <<>>,
                 contentType |-> IF c.fn = "UploadPOEFile"
                                 THEN "multipart/form-data" ELSE "",
                 body |-> IF c.fn = "UploadPOEFile" THEN BufBytes(c) ELSE Nil],
          !.pc = CASE c.fn \in BaseOps -> "marshal"
                   [] c.fn \in POEOps -> "setBody"
                   [] OTHER -> "doRequest"])

\* reqBody := &structs.WalletRequest{...}; r.SetBody(reqBody)
SetBody(i) ==
    LET c == call[i] IN
    /\ c.pc = "setBody"
    /\ Set(i, [c EXCEPT !.r.body = WalletRequest(c.reqPayload, c.sign),
                        !.pc = "doRequest"])

\* variant: a failed connection is retried once
DoRequestRetry(i) ==
    LET c == call[i]
        d == [c EXCEPT !.sent = Append(@, c.r), !.steps = Append(@, 1)] IN
    /\ c.pc = "doRequest"
    /\ \/ Set(i, IF Len(c.sent) = 0
                 THEN [c EXCEPT !.sent = Append(@, c.r)]
                 ELSE Fail(d, Error("transport", 0, "connection failed")))
       \/ Set(i, Fail(d, Error("transport", 0, "unexpected response code")))
       \/ \E raw \in Responses :
            Set(i, [d EXCEPT !.resp = [kind |-> "response", raw |-> raw],
                             !.respBodyState = "open",
                             !.defers = Append(@, "resp.Body"),
                             !.pc = "decodeBody"])

\* _, resp, err := restapi.RequireOK(w.c.DoRequest(r)); on success
\* defer resp.Body.Close().  The send fails, or the status is not OK (the
\* call is then handed no response), or a response body arrives.
DoRequest(i) ==
    LET c == call[i]
        d == [c EXCEPT !.sent = Append(@, c.r), !.steps = Append(@, 1)] IN
    /\ c.pc = "doRequest"
    /\ \/ \E m \in {"connection failed", "unexpected response code"} :
            Set(i, Fail(d, Error("transport", 0, m)))
       \/ \E raw \in Responses :
            Set(i, [d EXCEPT !.resp = [kind |-> "response", raw |-> raw],
                             !.respBodyState = "open",
                             !.defers = Append(@, "resp.Body"),
                             !.pc = "decodeBody"])

----------------------------------------------------------------------------
(* Response decoding *)

\* variant: the payload is inspected right after the envelope is decoded
DecodeBodyThenPayload(i) ==
    LET c == call[i]
        d == [c EXCEPT !.steps = Append(@, 2)] IN
    /\ c.pc = "decodeBody"
    /\ Set(i, IF c.resp.raw.kind = "malformed"
              THEN Fail(d, Error("decode", 0, "invalid character"))
              ELSE [d EXCEPT !.respBody = DecodeEnvelope(c.resp.raw),
                             !.pc = "checkPayload"])

\* if err = restapi.DecodeBody(resp, &respBody); err != nil { return }
DecodeBody(i) ==
    LET c == call[i]
        d == [c EXCEPT !.steps = Append(@, 2)] IN
    /\ c.pc = "decodeBody"
    /\ Set(i, IF c.resp.raw.kind = "malformed"
              THEN Fail(d, Error("decode", 0, "invalid character"))
              ELSE [d EXCEPT !.respBody = DecodeEnvelope(c.resp.raw),
                             !.pc = "checkErrCode"])

\* if respBody.ErrCode != errors.SuccCode { err = rest.CodedError(...); return }
CheckErrCode(i) ==
    LET c == call[i]
        d == [c EXCEPT !.steps = Append(@, 3)] IN
    /\ c.pc = "checkErrCode"
    /\ Set(i, IF c.respBody.ErrCode # SuccCode
              THEN Fail(d, CodedError(c.respBody.ErrCode, c.respBody.ErrMessage))
              ELSE [d EXCEPT !.pc = "checkPayload"])

\* variant: an absent payload is taken as an empty success
CheckPayloadNilAccepted(i) ==
    LET c == call[i]
        d == [c EXCEPT !.steps = Append(@, 4)] IN
    /\ c.pc = "checkPayload"
    /\ Set(i, IF c.respBody.Payload.kind = "nil"
              THEN [d EXCEPT !.pc = "return"]
              ELSE IF c.respBody.Payload.kind # "string"
              THEN Fail(d, PayloadTypeError(c.respBody.Payload))
              ELSE [d EXCEPT !.respPayload = c.respBody.Payload.val,
                             !.pc = "unmarshal"])

\* respPayload, ok := respBody.Payload.(string); if !ok { err = ...; return }
CheckPayload(i) ==
    LET c == call[i]
        d == [c EXCEPT !.steps = Append(@, 4)] IN
    /\ c.pc = "checkPayload"
    /\ Set(i, IF c.respBody.Payload.kind # "string"
              THEN Fail(d, PayloadTypeError(c.respBody.Payload))
              ELSE [d EXCEPT !.respPayload = c.respBody.Payload.val,
                             !.pc = "unmarshal"])

\* variant: only a call in sync mode parses the payload, an async call
\* leaves the result to the callback
UnmarshalPayloadSyncOnly(i) ==
    LET c == call[i]
        u == JsonUnmarshal(c.respPayload, ResultType(c.fn)) IN
    /\ c.pc = "unmarshal"
    /\ Set(i, IF c.header = "sync"
              THEN [c EXCEPT !.steps = Append(@, 5), !.result = u.result,
                             !.err = u.err, !.pc = "return"]
              ELSE [c EXCEPT !.steps = Append(@, 5), !.pc = "return"])

\* err = json.Unmarshal([]byte(respPayload), &result); return
UnmarshalPayload(i) ==
    LET c == call[i]
        u == JsonUnmarshal(c.respPayload, ResultType(c.fn)) IN
    /\ c.pc = "unmarshal"
    /\ Set(i, [c EXCEPT !.steps = Append(@, 5), !.result = u.result,
                        !.err = u.err, !.pc = "return"])

\* variant: the closes are not deferred but done on the success path only
RunDefersOnSuccessOnly(c) ==
    IF c.err = NoErr
    THEN [c EXCEPT !.respBodyState = IF @ = "open" THEN "closed" ELSE @,
                   !.srcFile = IF @ = "open" THEN "closed" ELSE @,
                   !.defers = <<>>]
    ELSE [c EXCEPT !.defers = <<>>]

\* the deferred resp.Body.Close() and srcFile.Close() run as the function
\* returns
RunDefers(c) ==
    [c EXCEPT !.respBodyState = IF \E k \in 1..Len(c.defers) : c.defers[k] = "resp.Body"
                                THEN "closed" ELSE @,
              !.srcFile = IF \E k \in 1..Len(c.defers) : c.defers[k] = "srcFile"
                          THEN "closed" ELSE @,
              !.defers = <<>>]

Return(i) ==
    LET c == call[i] IN
    /\ c.pc = "return"
    /\ Set(i, [RunDefers(c) EXCEPT !.pc = "done"])

----------------------------------------------------------------------------

Next ==
    \/ \E i \in calls : Invoke(i)
    \/ \E i \in calls : Validate(i)
    \/ \E i \in calls : QueryPrivateKey(i)
    \/ \E i \in calls : MarshalBody(i)
    \/ \E i \in calls : BuildSignatureBody(i)
    \/ \E i \in calls : Delegate(i)
    \/ \E i \in calls : WriteFieldPoeID(i)
    \/ \E i \in calls : WriteFieldReadOnly(i)
    \/ \E i \in calls : CreateFormFile(i)
    \/ \E i \in calls : OpenFile(i)
    \/ \E i \in calls : CopyFile(i)
    \/ \E i \in calls : CloseWriter(i)
    \/ \E i \in calls : NewRequest(i)
    \/ \E i \in calls : SetBody(i)
    \/ \E i \in calls : DoRequest(i)
    \/ \E i \in calls : DecodeBody(i)
    \/ \E i \in calls : CheckErrCode(i)
    \/ \E i \in calls : CheckPayload(i)
    \/ \E i \in calls : UnmarshalPayload(i)
    \/ \E i \in calls : Return(i)

Spec == Init /\ [][Next]_vars

\* two callers use the same client at the same time
InitConcurrent ==
    /\ ws \in BOOLEAN
    /\ calls = {1, 2}
    /\ call = [i \in calls |-> Idle]

SpecConcurrent == InitConcurrent /\ [][Next]_vars

----------------------------------------------------------------------------
(* Properties *)

Returned(c) == c.pc \in {"return", "done"}

Decoded(c) == c.respBody.kind = "Response"

\* C1: in every operation, once the decoded envelope carries an err_code
\* other than the success code, the call returns the remote error made of
\* exactly that err_code and err_message and no typed result, whatever the
\* payload member holds.
C1_RemoteErrorVerbatim ==
    \A i \in calls :
        LET c == call[i] IN
        (Returned(c) /\ Decoded(c) /\ c.respBody.ErrCode # SuccCode)
            => /\ c.err = [kind |-> "remote", code |-> c.respBody.ErrCode,
                           msg |-> c.respBody.ErrMessage]
               /\ c.err.code = c.resp.raw.err_code
               /\ c.err.msg = c.resp.raw.err_message
               /\ IsNil(c.result)

C1_Witness ==
    \E i \in calls :
        LET c == call[i] IN
        /\ c.pc = "done" /\ Decoded(c)
        /\ c.respBody.ErrCode = MaxErrCode
        /\ c.respBody.ErrMessage = "insufficient balance"
        /\ c.respBody.Payload.kind = "string"
        /\ c.respBody.Payload.val = InnerGood("tx1")
        /\ c.err.kind = "remote"

\* C2: in every operation, an envelope with the success code whose payload
\* member is not a string makes the call return the payload-type error
\* naming the observed type; the nested JSON is never parsed and no typed
\* result is returned.
C2_NonStringPayloadRejected ==
    \A i \in calls :
        LET c == call[i] IN
        (Returned(c) /\ Decoded(c) /\ c.respBody.ErrCode = SuccCode
                     /\ c.respBody.Payload.kind # "string")
            => /\ c.err.kind = "payloadType"
               /\ c.err.msg = (CASE c.respBody.Payload.kind = "nil" -> "<nil>"
                                 [] c.respBody.Payload.kind = "float64" -> "float64"
                                 [] OTHER -> "map[string]interface {}")
               /\ \A k \in 1..Len(c.steps) : c.steps[k] # 5
               /\ IsNil(c.result)

C2_Witness ==
    \E i \in calls :
        LET c == call[i] IN
        /\ c.pc = "done" /\ Decoded(c) /\ c.respBody.ErrCode = SuccCode
        /\ c.respBody.Payload.kind = "map"
        /\ c.err.kind = "payloadType"

\* C3: QueryTransactionLogs and QueryPOE called with an empty id fail with
\* a precondition error before any request is built: nothing is sent.
C3_EmptyIdNeverSent ==
    \A i \in calls :
        LET c == call[i] IN
        (c.op \in QueryOps /\ c.id = "" /\ c.pc # "idle")
            => /\ Len(c.sent) = 0
               /\ Returned(c) => c.err.kind = "precondition"

\* C4: in every SDK-signing operation, the bytes passed to the signature
\* builder are the bytes carried as the payload string of the envelope that
\* is dispatched.
C4_SignedBytesAreSentBytes ==
    \A i \in calls :
        LET c == call[i] IN
        c.op \in SigningOps
            => \A k \in 1..Len(c.sent) :
                  /\ c.sent[k].body.kind = "envelope"
                  /\ c.signBuilt = 1
                  /\ c.sent[k].body.payload = c.signInput

C4_Witness ==
    \E i \in calls :
        LET c == call[i] IN
        /\ c.op = "TransferAssetSign" /\ c.pc = "done"
        /\ Len(c.sent) = 1
        /\ c.sent[1].body.signature.value = "sdkSig"
        /\ c.body.owner = "bob"

\* C5: a call lacking a required argument (nil body for issue, transfer,
\* CreatePOE, UpdatePOE; empty poeID or poeFile for UploadPOEFile) returns a
\* precondition error before any I/O: no key-custody lookup, no file open,
\* no send.
MissingArgument(c) ==
    \/ c.op \in BaseOps \cup SigningOps /\ IsNil(c.body)
    \/ c.op = "UploadPOEFile" /\ (c.id = "" \/ c.poeFile = "")

C5_MissingArgumentNoIO ==
    \A i \in calls :
        LET c == call[i] IN
        (c.pc # "idle" /\ MissingArgument(c))
            => /\ c.lookups = 0 /\ c.opens = 0 /\ Len(c.sent) = 0
               /\ c.pc \in {"validate", "return", "done"}
               /\ Returned(c) => (c.err.kind = "precondition" /\ IsNil(c.result))

C5_Witness ==
    \E i \in calls :
        LET c == call[i] IN
        /\ ws /\ c.op = "CreatePOE" /\ IsNil(c.body) /\ c.pc = "done"
        /\ c.err.kind = "precondition"

\* C6: an UploadPOEFile call whose poeFile cannot be opened returns the
\* open error, one whose content cannot be copied returns the copy error,
\* and in both cases nothing is ever sent.
C6_LocalFileErrorNeverSends ==
    \A i \in calls :
        LET c == call[i] IN
        (c.op = "UploadPOEFile" /\ c.fs # "file")
            => /\ Len(c.sent) = 0
               /\ c.opens > 0 =>
                    IF c.fs = "missing"
                    THEN Returned(c) /\ c.err.kind = "open"
                    ELSE Returned(c) => c.err.kind = "copy"

C6_Witness ==
    \E i \in calls :
        LET c == call[i] IN
        /\ c.op = "UploadPOEFile" /\ c.fs = "missing" /\ c.pc = "done"
        /\ c.opens = 1 /\ c.err.kind = "open"

\* C7: UploadPOEFile only ever dispatches a body taken from the buffer
\* after the multipart writer was closed.
C7_WriterClosedBeforeSend ==
    \A i \in calls :
        LET c == call[i] IN
        c.op = "UploadPOEFile"
            => /\ \A k \in 1..Len(c.sent) :
                    /\ c.sent[k].body.kind = "multipart"
                    /\ c.sent[k].body.terminated
               /\ (~IsNil(c.r) => c.r.body.terminated)

C7_Witness ==
    \E i \in calls :
        LET c == call[i] IN
        /\ c.op = "UploadPOEFile" /\ Len(c.sent) = 1 /\ c.pc = "decodeBody"

\* C8: when a call has returned, every response body it was handed and the
\* local file it opened are closed, whichever way the call ended.
C8_ResourcesReleased ==
    \A i \in calls :
        LET c == call[i] IN
        c.pc = "done"
            => /\ (~IsNil(c.resp) => c.respBodyState = "closed")
               /\ ((c.opens > 0 /\ c.fs # "missing") => c.srcFile = "closed")
               /\ c.respBodyState # "open"
               /\ c.srcFile # "open"

C8_Witness ==
    \E i \in calls :
        LET c == call[i] IN
        /\ c.op = "UploadPOEFile" /\ c.pc = "done"
        /\ c.err.kind = "parse"
        /\ c.respBodyState = "closed" /\ c.srcFile = "closed"

\* C9: the decoding steps run in the order status check, envelope decode,
\* err_code comparison, payload-is-string check, nested parse; a step that
\* fails returns its own error and no later step runs.
StepError(k) ==
    CASE k = 1 -> "transport"
      [] k = 2 -> "decode"
      [] k = 3 -> "remote"
      [] k = 4 -> "payloadType"
      [] OTHER -> "parse"

C9_DecodeOrder ==
    \A i \in calls :
        LET c == call[i] IN
        /\ \A k \in 1..Len(c.steps) : c.steps[k] = k
        /\ (Returned(c) /\ Len(c.steps) > 0) =>
              IF c.err = NoErr
              THEN Len(c.steps) = 5
              ELSE c.err.kind = StepError(Len(c.steps))

C9_Witness ==
    \E i \in calls :
        LET c == call[i] IN
        /\ c.pc = "done" /\ c.steps = <<1, 2, 3, 4>>
        /\ c.err.kind = "payloadType"

\* C10: no operation retries: a call sends at most one request, to the
\* operation's own endpoint, and once a step has failed the call only
\* returns: the error is kept and nothing more is sent.
C10_NoRetry ==
    /\ [](\A i \in calls :
            LET c == call[i] IN
            /\ Len(c.sent) <= 1
            /\ \A k \in 1..Len(c.sent) : c.sent[k].path = Path(BaseOf(c.op))
            /\ c.err # NoErr => Returned(c))
    /\ [][\A i \in calls :
            call[i].err # NoErr
                => /\ call'[i].err = call[i].err
                   /\ call'[i].sent = call[i].sent
                   /\ call'[i].lookups = call[i].lookups]_vars

C10_Witness ==
    \E i \in calls :
        LET c == call[i] IN
        /\ c.op = "UpdatePOE" /\ c.pc = "done"
        /\ c.err.kind = "transport" /\ Len(c.sent) = 1

\* C11: two calls running concurrently on one client are independent: under
\* every interleaving each call sends the request made from its own
\* arguments and returns what decoding its own response alone gives, every
\* step changes the frame of one call only, and no step writes a client
\* field.
AloneOutcome(c) ==
    LET raw == c.resp.raw
        env == DecodeEnvelope(raw) IN
    IF raw.kind = "malformed"
    THEN [err |-> Error("decode", 0, "invalid character"), result |-> Nil]
    ELSE IF env.ErrCode # SuccCode
    THEN [err |-> CodedError(env.ErrCode, env.ErrMessage), result |-> Nil]
    ELSE IF env.Payload.kind # "string"
    THEN [err |-> PayloadTypeError(env.Payload), result |-> Nil]
    ELSE JsonUnmarshal(env.Payload.val, ResultType(BaseOf(c.op)))

OwnRequest(c, r) ==
    /\ r.header = c.header
    /\ r.method = Method(BaseOf(c.op))
    /\ r.path = Path(BaseOf(c.op))
    /\ r.params = (IF c.op \in QueryOps THEN <<c.id, c.txType>> ELSE <<>>)
    /\ r.body.kind = "envelope" => r.body.payload = JsonMarshal(c.body).bytes
    /\ r.body.kind = "multipart" =>
            /\ r.body.parts[1].value = c.id
            /\ r.body.parts[3].filename = c.poeFile

C11_ConcurrentCallsIndependent ==
    /\ [](\A i \in calls :
            LET c == call[i] IN
            /\ \A k \in 1..Len(c.sent) : OwnRequest(c, c.sent[k])
            /\ (c.pc = "done" /\ ~IsNil(c.resp))
                  => [err |-> c.err, result |-> c.result] = AloneOutcome(c)
            /\ (c.pc = "done" /\ IsNil(c.resp))
                  => (c.err # NoErr /\ IsNil(c.result)))
    /\ [][/\ ws' = ws
          /\ calls' = calls
          /\ \E i \in calls : \A j \in calls \ {i} : call'[j] = call[j]]_vars

C11_Witness ==
    /\ calls = {1, 2}
    /\ call[1].op = "TransferCTokenSign" /\ call[1].header = "sync"
    /\ call[1].pc = "checkErrCode" /\ Len(call[1].sent) = 1
    /\ call[1].respBody.ErrCode = SuccCode
    /\ call[2].op = "CreatePOE" /\ call[2].header = "unset"
    /\ call[2].pc = "checkErrCode" /\ Len(call[2].sent) = 1
    /\ call[2].respBody.ErrCode # SuccCode

\* C12: with a custodial signer configured, CreatePOE and UpdatePOE make
\* the key-custody lookup before the signature is built and before anything
\* is sent, and a failed lookup ends the call with the lookup error, no
\* signature built, nothing sent.  Without a custodial signer no lookup is
\* made and the parameters the caller gave are the ones used.  The
\* parameters change only by the lookup.
C12_CustodyLookupFirst ==
    /\ [](\A i \in calls :
            LET c == call[i] IN
            c.op \in POEOps
               => /\ c.lookups <= 1
                  /\ ~ws => c.lookups = 0
                  /\ (ws /\ (c.signBuilt > 0 \/ Len(c.sent) > 0)) => c.lookups = 1
                  /\ c.err.kind = "custody"
                        => /\ Returned(c) /\ c.lookups = 1
                           /\ c.signBuilt = 0 /\ Len(c.sent) = 0
                           /\ IsNil(c.result)
                  /\ (c.signBuilt > 0 /\ ~IsNil(c.sign))
                        => /\ c.sign.creator = c.signParams.creator
                           /\ c.sign.nonce = c.signParams.nonce)
    /\ [][\A i \in calls :
            (call[i].op \in POEOps /\ call'[i].signParams # call[i].signParams)
                => /\ ws
                   /\ call[i].pc = "queryPrivateKey"
                   /\ call'[i].lookups = call[i].lookups + 1
                   /\ call[i].signBuilt = 0
                   /\ Len(call[i].sent) = 0]_vars

C12_Witness ==
    \E i \in calls :
        LET c == call[i] IN
        /\ ws /\ c.op = "UpdatePOE" /\ c.pc = "done"
        /\ c.lookups = 1 /\ c.signBuilt = 1 /\ Len(c.sent) = 1
        /\ c.sent[1].body.signature.creator = "enterprise"

\* C13: two calls of the same operation with the same arguments and the
\* same raw response, one with Bc-Invoke-Mode set to sync and one without,
\* send the same request but for the header and return the same result and
\* the same error.
SameArguments(c, d) ==
    /\ c.op = d.op /\ c.body = d.body /\ c.signParams = d.signParams
    /\ c.id = d.id /\ c.txType = d.txType /\ c.poeFile = d.poeFile
    /\ c.readOnly = d.readOnly /\ c.fs = d.fs

C13_InvokeModeNotInterpreted ==
    \A i \in calls : \A j \in calls :
        LET c == call[i]
            d == call[j] IN
        (/\ c.pc = "done" /\ d.pc = "done"
         /\ c.header = "sync" /\ d.header = "unset"
         /\ SameArguments(c, d)
         /\ ~IsNil(c.resp) /\ ~IsNil(d.resp) /\ c.resp.raw = d.resp.raw)
            => /\ c.sent[1].body = d.sent[1].body
               /\ c.sent[1] = [d.sent[1] EXCEPT !.header = "sync"]
               /\ d.sent[1].header = "unset"
               /\ c.result = d.result
               /\ c.err = d.err
               /\ c.steps = d.steps

C13_Witness ==
    /\ calls = {1, 2}
    /\ call[1].pc = "done" /\ call[2].pc = "done"
    /\ call[1].op = "TransferCTokenSign"
    /\ call[1].header = "sync" /\ call[2].header = "unset"
    /\ SameArguments(call[1], call[2])
    /\ ~IsNil(call[1].resp) /\ ~IsNil(call[2].resp)
    /\ call[1].resp.raw = call[2].resp.raw
    /\ call[1].err = NoErr
    /\ call[1].result.kind = "result"
    /\ call[1].result.id = "tx2"

\* C14: in every SDK-signing operation the signature is built before the
\* request is composed, and a failure of the signature builder ends the
\* call with the signing error, no request composed and nothing sent.
C14_SignBeforeCompose ==
    \A i \in calls :
        LET c == call[i] IN
        c.op \in SigningOps
            => /\ c.signBuilt <= 1
               /\ (~IsNil(c.r) \/ Len(c.sent) > 0)
                     => (c.signBuilt = 1 /\ ~IsNil(c.sign))
               /\ (c.signBuilt = 1 /\ IsNil(c.sign))
                     => /\ Returned(c)
                        /\ c.err.kind = "signing"
                        /\ IsNil(c.r) /\ Len(c.sent) = 0
                        /\ IsNil(c.result)
               /\ \A k \in 1..Len(c.sent) : c.sent[k].body.signature = c.sign

C14_Witness ==
    \E i \in calls :
        LET c == call[i] IN
        /\ c.op = "IssueAssetSign" /\ c.pc = "done"
        /\ c.signBuilt = 1
        /\ c.err = Error("signing", 0, "malformed key")

\* C15: in UploadPOEFile the local file is closed once its content has been
\* copied into the multipart body: whenever the request has been handed to
\* the transport, the file handle is closed.
C15_FileClosedBeforeSend ==
    \A i \in calls :
        LET c == call[i] IN
        (c.op = "UploadPOEFile" /\ Len(c.sent) > 0)
            => c.srcFile = "closed"

\* C16: UploadPOEFile writes the parts in the order POE id field, read-only
\* field (true or false as a string), file part; the file content comes
\* last, the writer is closed only when the three parts are written, and a
\* failed write ends the call with no later part written and nothing sent.
PartNames == <<"OffchainPOEID", "OffchainReadOnly", "OffchainPOEFile">>

PartsWrittenAtFailure(e) ==
    CASE e.kind = "write" /\ e.msg = "OffchainPOEID" -> 0
      [] e.kind = "write" /\ e.msg = "OffchainReadOnly" -> 1
      [] e.kind = "write" /\ e.msg = "OffchainPOEFile" -> 2
      [] OTHER -> 3

C16_PartsInOrder ==
    \A i \in calls :
        LET c == call[i] IN
        c.op = "UploadPOEFile"
            => /\ Len(c.parts) <= 3
               /\ \A k \in 1..Len(c.parts) : c.parts[k].name = PartNames[k]
               /\ Len(c.parts) >= 1 => c.parts[1].value = c.id
               /\ Len(c.parts) >= 2 =>
                     c.parts[2].value = (IF c.readOnly THEN "true" ELSE "false")
               /\ Len(c.parts) >= 3 => c.parts[3].filename = c.poeFile
               /\ c.writerClosed =>
                     (Len(c.parts) = 3 /\ c.parts[3].value = "file contents")
               /\ c.err.kind \in {"write", "open", "copy"}
                     => /\ Returned(c)
                        /\ Len(c.parts) = PartsWrittenAtFailure(c.err)
                        /\ \A k \in 1..Len(c.parts) :
                              c.parts[k].value # "file contents"
                        /\ ~c.writerClosed
                        /\ IsNil(c.r) /\ Len(c.sent) = 0
               /\ \A k \in 1..Len(c.sent) :
                     /\ c.sent[k].body.parts = c.parts
                     /\ Len(c.sent[k].body.parts) = 3

C16_Witness ==
    \E i \in calls :
        LET c == call[i] IN
        /\ c.op = "UploadPOEFile" /\ c.readOnly /\ c.pc = "done"
        /\ Len(c.sent) = 1
        /\ c.sent[1].body.parts[2].value = "true"
        /\ c.sent[1].body.parts[3].value = "file contents"

\* C17: in every operation, an envelope with the success code and no
\* payload member (null) is not an empty success: the call returns the
\* payload-type error for the type <nil> and no typed result, and the nested
\* parse is not run.
C17_AbsentPayloadRejected ==
    \A i \in calls :
        LET c == call[i] IN
        (/\ Returned(c) /\ ~IsNil(c.resp) /\ c.resp.raw.kind = "json"
         /\ c.resp.raw.has_code /\ c.resp.raw.err_code = SuccCode
         /\ IsNil(c.resp.raw.payload))
            => /\ c.err = [kind |-> "payloadType", code |-> 0, msg |-> "<nil>"]
               /\ IsNil(c.result)
               /\ c.steps = <<1, 2, 3, 4>>

C17_Witness ==
    \E i \in calls :
        LET c == call[i] IN
        /\ c.op = "QueryPOE" /\ c.pc = "done"
        /\ ~IsNil(c.resp) /\ c.resp.raw.kind = "json"
        /\ c.resp.raw.has_code /\ c.resp.raw.err_code = SuccCode
        /\ IsNil(c.resp.raw.payload)
        /\ c.err.msg = "<nil>"

====
